---- MODULE Spec2Model ----
(***************************************************************************)
(* EnvCanViz: CSV loading with datetime detection (loader.py), cleaning,   *)
(* filtering and resampling (processor.py), summaries (summary.py), chart  *)
(* file naming (visualizer.py, utils.py) and the orchestrator (__main__).  *)
(*                                                                         *)
(* Text is a sequence of one-character strings.  A table is a record       *)
(* [cols, rows]: cols the column names in order, rows a sequence of        *)
(* functions from column name to cell.  A cell is a tagged record: a       *)
(* string, a number (a rational n/d), NaN, a timestamp or NaT.             *)
(* Timestamps count half days: day D at 00:00 is 2*D, at 12:00 is 2*D+1.   *)
(***************************************************************************)
EXTENDS Integers, Sequences, FiniteSets, TLC

VARIABLES
  pc,        \* position in main(): the step to run next, "done" or "exit"
  args,      \* the parsed command line
  raw,       \* the CSV file's content: header and text fields
  loaded,    \* the table as CSVLoader.load returned it
  df,        \* main()'s df
  dtcol,     \* main()'s dtcol
  pre,       \* df as it was before the last step
  resampled, \* what DataProcessor.resample returned
  files,     \* the files written so far, in order
  result,    \* what the last Summarizer/Visualizer call returned
  last       \* the step of main() that ran last, "none" before the first

vars == <<pc, args, raw, loaded, df, dtcol, pre, resampled, files, result, last>>

(***************************************************************************)
(* Characters and text                                                     *)
(***************************************************************************)
UpperCase == <<"A","B","C","D","E","F","G","H","I","J","K","L","M",
               "N","O","P","Q","R","S","T","U","V","W","X","Y","Z">>

LowerCase == <<"a","b","c","d","e","f","g","h","i","j","k","l","m",
               "n","o","p","q","r","s","t","u","v","w","x","y","z">>

Digits == <<"0","1","2","3","4","5","6","7","8","9">>

Range(s) == {s[i] : i \in DOMAIN s}

Whitespace == {" ", "\t"}

\* str.lower() on one character
LowerChar(c) ==
  IF \E i \in DOMAIN UpperCase : UpperCase[i] = c
  THEN LowerCase[CHOOSE i \in DOMAIN UpperCase : UpperCase[i] = c]
  ELSE c

\* str.lower()
Lower(s) == [i \in 1..Len(s) |-> LowerChar(s[i])]

\* str.strip(): drop leading and trailing whitespace
Strip(s) ==
  LET idx == {i \in DOMAIN s : s[i] \notin Whitespace}
  IN  IF idx = {} THEN <<>>
      ELSE LET lo == CHOOSE i \in idx : \A j \in idx : i <= j
               hi == CHOOSE i \in idx : \A j \in idx : j <= i
           IN  SubSeq(s, lo, hi)

\* the Python test `k in c` on strings: k occurs in c as a substring
Contains(c, k) ==
  \E i \in 0..(Len(c) - Len(k)) : SubSeq(c, i + 1, i + Len(k)) = k

(***************************************************************************)
(* Numbers: rationals n/d with d > 0, in lowest terms                      *)
(***************************************************************************)
Abs(x) == IF x < 0 THEN -x ELSE x

RECURSIVE Gcd(_, _)
Gcd(a, b) == IF b = 0 THEN a ELSE Gcd(b, a % b)

(***************************************************************************)
(* Cells                                                                   *)
(***************************************************************************)
Str(s) == [k |-> "str", s |-> s, n |-> 0, d |-> 1]

Num(n, d) ==
  LET g == Gcd(Abs(n), d)
  IN  [k |-> "num", s |-> <<>>, n |-> n \div g, d |-> d \div g]

NaN == [k |-> "nan", s |-> <<>>, n |-> 0, d |-> 1]

Ts(t) == [k |-> "ts", s |-> <<>>, n |-> t, d |-> 1]

NaT == [k |-> "nat", s |-> <<>>, n |-> 0, d |-> 1]

Bool(b) == [k |-> "bool", s |-> <<>>, n |-> IF b THEN 1 ELSE 0, d |-> 1]

IsMissing(c) == c.k \in {"nan", "nat"}

\* an optional command-line string: absent (Python None) or a text
NoArg == [some |-> FALSE, s |-> <<>>]

Arg(s) == [some |-> TRUE, s |-> s]

\* Python truthiness of an optional string: None and "" are falsy
\* "is not None" in place of truthiness: the empty string passes
TruthyNotNone(a) == a.some

\* Python truthiness of an optional string: None and "" are falsy
Truthy(a) == a.some /\ a.s # <<>>

RLess(a, b) == a.n * b.d < b.n * a.d

RLeq(a, b) == a.n * b.d <= b.n * a.d

RAdd(a, b) == Num(a.n * b.d + b.n * a.d, a.d * b.d)

RDivInt(a, m) == Num(a.n, a.d * m)

(***************************************************************************)
(* Tables                                                                  *)
(***************************************************************************)
HasCol(t, c) == \E i \in DOMAIN t.cols : t.cols[i] = c

Column(t, c) == [i \in 1..Len(t.rows) |-> t.rows[i][c]]

(***************************************************************************)
(* Parsing (pandas to_numeric / to_datetime with errors="coerce")          *)
(***************************************************************************)
DigitValue(c) == (CHOOSE i \in DOMAIN Digits : Digits[i] = c) - 1

IsDigit(c) == \E i \in DOMAIN Digits : Digits[i] = c

RECURSIVE DecimalValue(_)
DecimalValue(s) ==
  IF s = <<>> THEN 0
  ELSE 10 * DecimalValue(SubSeq(s, 1, Len(s) - 1)) + DigitValue(s[Len(s)])

\* a numeral is a non-empty run of digits, surrounding whitespace allowed
ParseNumeric(s) ==
  LET u == Strip(s)
  IN  IF u # <<>> /\ \A i \in DOMAIN u : IsDigit(u[i])
      THEN Num(DecimalValue(u), 1)
      ELSE NaN

\* a date text is a day digit 1..9 followed by "a" (00:00) or "p" (12:00)
ParseDatetime(s) ==
  IF Len(s) = 2 /\ IsDigit(s[1]) /\ s[1] # "0" /\ s[2] \in {"a", "p"}
  THEN Ts(2 * DigitValue(s[1]) + (IF s[2] = "p" THEN 1 ELSE 0))
  ELSE NaT

\* pd.to_numeric(series, errors="coerce") on one cell
CellToNumeric(c) ==
  CASE c.k = "str" -> ParseNumeric(c.s)
    [] c.k = "num" -> c
    [] c.k = "ts"  -> Num(c.n, 1)
    [] OTHER       -> NaN

\* pd.to_datetime(series, errors="coerce") on one cell
CellToDatetime(c) ==
  CASE c.k = "str" -> ParseDatetime(c.s)
    [] c.k = "ts"  -> c
    [] c.k = "num" -> IF c.d = 1 /\ c.n >= 0 THEN Ts(c.n) ELSE NaT
    [] OTHER       -> NaT

(***************************************************************************)
(* DataProcessor (processor.py)                                            *)
(***************************************************************************)
\* for col in columns: if col in df.columns: df[col] = pd.to_numeric(...)
ToNumeric(t, columns) ==
  [t EXCEPT !.rows =
     [i \in 1..Len(t.rows) |->
        [c \in DOMAIN t.rows[i] |->
           IF c \in Range(columns) THEN CellToNumeric(t.rows[i][c])
           ELSE t.rows[i][c]]]]

RECURSIVE NatText(_)
NatText(n) ==
  IF n < 10 THEN <<Digits[n + 1]>>
  ELSE NatText(n \div 10) \o <<Digits[(n % 10) + 1]>>

\* astype(str) on one cell; numbers print as Python floats ("2.0"), the
\* fraction digits of a non-integer are not modelled (shown as "5")
AsStr(c) ==
  CASE c.k = "str" -> c.s
    [] c.k = "nan" -> <<"n", "a", "n">>
    [] c.k = "nat" -> <<"N", "a", "T">>
    [] c.k = "num" ->
         (IF c.n < 0 THEN <<"-">> ELSE <<>>)
           \o NatText(Abs(c.n) \div c.d)
           \o <<".">> \o (IF c.n % c.d = 0 THEN <<"0">> ELSE <<"5">>)
    [] OTHER       -> NatText(c.n)

\* a variant that matches the token anywhere in the cell's text
TraceMaskSubstring(c, trace_token) ==
  LET s == Lower(AsStr(c))
      k == Lower(trace_token)
  IN  \E a \in 1..Len(s) :
        a + Len(k) - 1 <= Len(s) /\ SubSeq(s, a, a + Len(k) - 1) = k

\* mask = df[col].astype(str).str.strip().str.lower() == str(token).lower()
TraceMask(c, trace_token) == Lower(Strip(AsStr(c))) = Lower(trace_token)

\* for col in columns: if col in df.columns: df.loc[mask, col] = replacement
HandleTraceValues(t, columns, trace_token, replacement) ==
  [t EXCEPT !.rows =
     [i \in 1..Len(t.rows) |->
        [c \in DOMAIN t.rows[i] |->
           IF c \in Range(columns) /\ TraceMask(t.rows[i][c], trace_token)
           THEN replacement
           ELSE t.rows[i][c]]]]

\* a variant in which a NaT bound constrains nothing
TsGeVacuous(a, b) == b.k # "ts" \/ (a.k = "ts" /\ a.n >= b.n)

\* a variant with an exclusive upper bound
TsLeExclusive(a, b) == a.k = "ts" /\ b.k = "ts" /\ a.n < b.n

\* series >= bound, series <= bound: a comparison with NaT is False
TsGe(a, b) == a.k = "ts" /\ b.k = "ts" /\ a.n >= b.n

TsLe(a, b) == a.k = "ts" /\ b.k = "ts" /\ a.n <= b.n

\* if start: df = df[df[datetime_col] >= pd.to_datetime(start, errors="coerce")]
FilterStart(t, datetime_col, start) ==
  IF Truthy(start)
  THEN LET bound == ParseDatetime(start.s)
           Keep(r) == TsGe(r[datetime_col], bound)
       IN  [t EXCEPT !.rows = SelectSeq(t.rows, Keep)]
  ELSE t

\* if end: df = df[df[datetime_col] <= pd.to_datetime(end, errors="coerce")]
FilterEnd(t, datetime_col, end) ==
  IF Truthy(end)
  THEN LET bound == ParseDatetime(end.s)
           Keep(r) == TsLe(r[datetime_col], bound)
       IN  [t EXCEPT !.rows = SelectSeq(t.rows, Keep)]
  ELSE t

FilterDateRange(t, datetime_col, start, end) ==
  IF ~HasCol(t, datetime_col) THEN t
  ELSE FilterEnd(FilterStart(t, datetime_col, start), datetime_col, end)

RECURSIVE SumSeq(_)
SumSeq(vs) == IF vs = <<>> THEN Num(0, 1) ELSE RAdd(Head(vs), SumSeq(Tail(vs)))

\* the bucket of a timestamp under frequency "D": its calendar day
BucketOf(ts) == ts \div 2

\* a variant that pools the whole column instead of one bucket
BucketValuesPooled(rows, datetime_col, c, b) ==
  LET In(r) == r[datetime_col].k = "ts" /\ r[c].k = "num"
      sel == SelectSeq(rows, In)
  IN  [i \in 1..Len(sel) |-> sel[i][c]]

\* the non-missing values of column c among the rows of one bucket
BucketValues(rows, datetime_col, c, b) ==
  LET In(r) == r[datetime_col].k = "ts" /\ BucketOf(r[datetime_col].n) = b
                 /\ r[c].k = "num"
      sel == SelectSeq(rows, In)
  IN  [i \in 1..Len(sel) |-> sel[i][c]]

AggMean(vs) == IF vs = <<>> THEN NaN ELSE RDivInt(SumSeq(vs), Len(vs))

\* pandas sums an empty or all-missing group to 0 (min_count = 0)
AggSum(vs) == SumSeq(vs)

AggMin(vs) ==
  IF vs = <<>> THEN NaN
  ELSE CHOOSE v \in Range(vs) : \A w \in Range(vs) : RLeq(v, w)

AggMax(vs) ==
  IF vs = <<>> THEN NaN
  ELSE CHOOSE v \in Range(vs) : \A w \in Range(vs) : RLeq(w, v)

AggMedian(vs) ==
  IF vs = <<>> THEN NaN
  ELSE LET srt == SortSeq(vs, RLess)
           m   == Len(vs)
       IN  IF m % 2 = 1 THEN srt[(m + 1) \div 2]
           ELSE RDivInt(RAdd(srt[m \div 2], srt[m \div 2 + 1]), 2)

MEAN == <<"m", "e", "a", "n">>

SUM == <<"s", "u", "m">>

MIN == <<"m", "i", "n">>

MAX == <<"m", "a", "x">>

MEDIAN == <<"m", "e", "d", "i", "a", "n">>

SupportedAggs == {MEAN, SUM, MIN, MAX, MEDIAN}

\* if agg == "mean": out = g.mean() elif ... (one bucket, one column)
Aggregate(agg, vs) ==
  CASE agg = MEAN   -> AggMean(vs)
    [] agg = SUM    -> AggSum(vs)
    [] agg = MIN    -> AggMin(vs)
    [] agg = MAX    -> AggMax(vs)
    [] agg = MEDIAN -> AggMedian(vs)

\* g = df.set_index(datetime_col)[cols].resample(freq): one bucket per day
\* from the first to the last day of the index, empty days included
Buckets(rows, datetime_col) ==
  LET days == {BucketOf(rows[i][datetime_col].n) : i \in
                 {j \in DOMAIN rows : rows[j][datetime_col].k = "ts"}}
  IN  IF days = {} THEN <<>>
      ELSE LET lo == CHOOSE x \in days : \A y \in days : x <= y
               hi == CHOOSE x \in days : \A y \in days : y <= x
           IN  [i \in 1..(hi - lo + 1) |-> lo + i - 1]

\* the aggregated frame, indexed by bucket, before dropna/reset_index
AggregatedRows(t, datetime_col, agg, cols) ==
  LET bs == Buckets(t.rows, datetime_col)
  IN  [i \in 1..Len(bs) |->
         [c \in Range(cols) \cup {datetime_col} |->
            IF c = datetime_col THEN Ts(2 * bs[i])
            ELSE Aggregate(agg, BucketValues(t.rows, datetime_col, c, bs[i]))]]

\* a variant that forgets the dropna
DropNaSkipped(rows, cols) == rows

\* out.dropna(how="all"): drop the rows whose every value column is missing
DropNaAll(rows, cols) ==
  LET Keep(r) == \E c \in Range(cols) : ~IsMissing(r[c])
  IN  SelectSeq(rows, Keep)

ResampleGuard(t, datetime_col, freq, cols) ==
  ~Truthy(freq) \/ ~HasCol(t, datetime_col)
    \/ ~(\A i \in DOMAIN cols : HasCol(t, cols[i]))

\* resample with the aggregation keyword examined before the guard
ResampleAggFirst(t, datetime_col, freq, agg, cols) ==
  IF agg \notin SupportedAggs
  THEN [kind |-> "exit", table |-> [cols |-> <<>>, rows |-> <<>>]]
  ELSE IF ResampleGuard(t, datetime_col, freq, cols)
  THEN [kind |-> "none", table |-> [cols |-> <<>>, rows |-> <<>>]]
  ELSE [kind |-> "table",
        table |-> [cols |-> <<datetime_col>> \o cols,
                   rows |-> DropNaAll(AggregatedRows(t, datetime_col, agg, cols),
                                      cols)]]

\* DataProcessor.resample: none, a table, or SystemExit
Resample(t, datetime_col, freq, agg, cols) ==
  IF ResampleGuard(t, datetime_col, freq, cols)
  THEN [kind |-> "none", table |-> [cols |-> <<>>, rows |-> <<>>]]
  ELSE IF agg \notin SupportedAggs
  THEN [kind |-> "exit", table |-> [cols |-> <<>>, rows |-> <<>>]]
  ELSE [kind |-> "table",
        table |-> [cols |-> <<datetime_col>> \o cols,
                   rows |-> DropNaAll(AggregatedRows(t, datetime_col, agg, cols),
                                      cols)]]

(***************************************************************************)
(* CSVLoader (loader.py)                                                   *)
(***************************************************************************)
TRUETEXT == <<"T", "r", "u", "e">>

FALSETEXT == <<"F", "a", "l", "s", "e">>

\* pd.read_csv's dtype inference for one column of field texts: all fields
\* numerals or empty gives a float column, all fields True/False a bool
\* column, anything else an object column of strings (empty fields NaN)
ColumnKind(texts) ==
  IF \A i \in DOMAIN texts : texts[i] = <<>> \/ ParseNumeric(texts[i]).k = "num"
  THEN "float"
  ELSE IF \A i \in DOMAIN texts : texts[i] \in {TRUETEXT, FALSETEXT}
  THEN "bool"
  ELSE "object"

ReadCell(kind, text) ==
  CASE text = <<>> /\ kind # "bool" -> NaN
    [] kind = "float"  -> ParseNumeric(text)
    [] kind = "bool"   -> Bool(text = TRUETEXT)
    [] OTHER           -> Str(text)

\* df = pd.read_csv(path): file is [cols, rows] with text fields
ReadCsv(file) ==
  LET kind == [c \in Range(file.cols) |-> ColumnKind(Column(file, c))]
  IN  [cols |-> file.cols,
       rows |-> [i \in 1..Len(file.rows) |->
                   [c \in DOMAIN file.rows[i] |-> ReadCell(kind[c], file.rows[i][c])]]]

SampleSize == 100

ScoreThresholdNum == 4

ScoreThresholdDen == 5

\* series.head(sample)
HeadN(series, m) == SubSeq(series, 1, IF Len(series) < m THEN Len(series) ELSE m)

\* pd.to_datetime raises TypeError on a bool column even with errors="coerce"
ToDatetimeRaises(series) == \E i \in DOMAIN series : series[i].k = "bool"

\* CSVLoader._score_datetime: the fraction of the sampled values that parse,
\* NaN for an empty sample, 0 when parsing raises
ScoreDatetime(series) ==
  LET smp == HeadN(series, SampleSize)
      ok  == {i \in DOMAIN smp : CellToDatetime(smp[i]).k = "ts"}
  IN  IF ToDatetimeRaises(smp) THEN Num(0, 1)
      ELSE IF smp = <<>> THEN NaN
      ELSE Num(Cardinality(ok), Len(smp))

\* score >= 0.8 (False for NaN)
ScoreOk(sc) == sc.k = "num" /\ sc.n * ScoreThresholdDen >= ScoreThresholdNum * sc.d

DATE == <<"d", "a", "t", "e">>

TIME == <<"t", "i", "m", "e">>

\* any(k in c.lower() for k in ["date", "time"])
NameCandidate(c) == Contains(Lower(c), DATE) \/ Contains(Lower(c), TIME)

\* pass 1: the first name candidate, in column order, whose score >= 0.8
DetectPass1(t) ==
  LET hits == {i \in DOMAIN t.cols :
                 NameCandidate(t.cols[i]) /\ ScoreOk(ScoreDatetime(Column(t, t.cols[i])))}
  IN  IF hits = {} THEN NoArg
      ELSE Arg(t.cols[CHOOSE i \in hits : \A j \in hits : i <= j])

\* a variant that takes the best column without testing the threshold
DetectPass2NoThreshold(t) ==
  IF t.cols = <<>> \/ t.rows = <<>> THEN NoArg
  ELSE Arg(t.cols[CHOOSE i \in DOMAIN t.cols :
             \A j \in DOMAIN t.cols :
                RLeq(ScoreDatetime(Column(t, t.cols[j])),
                     ScoreDatetime(Column(t, t.cols[i])))])

\* pass 2: stable sort of all columns by score, descending; take the head
DetectPass2(t) ==
  LET Sc(i) == ScoreDatetime(Column(t, t.cols[i]))
      \* the head of the stable descending sort: no earlier column scores
      \* at least as much, no later column scores more
      best == {i \in DOMAIN t.cols :
                 /\ \A j \in DOMAIN t.cols : j < i => RLess(Sc(j), Sc(i))
                 /\ \A j \in DOMAIN t.cols : j > i => RLeq(Sc(j), Sc(i))}
  IN  IF t.cols = <<>> \/ t.rows = <<>> THEN NoArg
      ELSE LET b == CHOOSE i \in best : TRUE
           IN  IF ScoreOk(Sc(b)) THEN Arg(t.cols[b]) ELSE NoArg

\* a variant that skips the name-preference pass
DetectByScoreOnly(t) == DetectPass2(t)

\* CSVLoader.detect_datetime_col
DetectDatetimeCol(t) ==
  IF DetectPass1(t).some THEN DetectPass1(t) ELSE DetectPass2(t)

\* df[datetime_col] = pd.to_datetime(df[datetime_col], errors="coerce")
ParseDatetimeCol(t, c) ==
  [t EXCEPT !.rows =
     [i \in 1..Len(t.rows) |-> [t.rows[i] EXCEPT ![c] = CellToDatetime(@)]]]

\* df.dropna(subset=[datetime_col])
DropNaT(t, c) ==
  LET Keep(r) == r[c].k = "ts"
  IN  [t EXCEPT !.rows = SelectSeq(t.rows, Keep)]

RECURSIVE SortedOrders(_, _, _)
\* the ascending arrangements of the rows indexed by idx: any row with the
\* least key may come first
SortedOrders(rows, c, idx) ==
  IF idx = {} THEN {<<>>}
  ELSE UNION {{<<rows[i]>> \o rest : rest \in SortedOrders(rows, c, idx \ {i})} :
              i \in {j \in idx : \A k \in idx : rows[j][c].n <= rows[k][c].n}}

\* a variant that leaves the rows in file order
SortValuesSkipped(t, c) == {t}

\* a variant that sorts with ascending=False
SortValuesDescending(t, c) ==
  {[t EXCEPT !.rows = [i \in 1..Len(rs) |-> rs[Len(rs) + 1 - i]]] :
     rs \in SortedOrders(t.rows, c, DOMAIN t.rows)}

\* df.sort_values(by=datetime_col): pandas' default quicksort is not stable,
\* so every ascending arrangement of the rows is a possible outcome
SortValues(t, c) ==
  {[t EXCEPT !.rows = rs] : rs \in SortedOrders(t.rows, c, DOMAIN t.rows)}

\* the datetime column load() settles on: the caller's, else the detected one
ResolveDatetimeCol(t, datetime_col) ==
  IF datetime_col.some THEN datetime_col ELSE DetectDatetimeCol(t)

\* CSVLoader.load: the possible (df, datetime_col) results for a file;
\* raised: the unguarded pd.to_datetime of line 126 raised (a bool column)
Load(file, datetime_col) ==
  LET t  == ReadCsv(file)
      dc == ResolveDatetimeCol(t, datetime_col)
  IN  IF dc.some /\ HasCol(t, dc.s)
      THEN IF ToDatetimeRaises(Column(t, dc.s))
           THEN {[df |-> t, dtcol |-> dc, raised |-> TRUE]}
           ELSE {[df |-> u, dtcol |-> dc, raised |-> FALSE] :
                   u \in SortValues(DropNaT(ParseDatetimeCol(t, dc.s), dc.s), dc.s)}
      ELSE {[df |-> t, dtcol |-> dc, raised |-> FALSE]}

(***************************************************************************)
(* slugify (utils.py)                                                      *)
(***************************************************************************)
RECURSIVE CollapseWhitespace(_)
\* re.sub(r"\s+", "-", value): each maximal run of whitespace becomes "-"
CollapseWhitespace(s) ==
  IF s = <<>> THEN <<>>
  ELSE IF Head(s) \in Whitespace
       THEN IF Len(s) > 1 /\ s[2] \in Whitespace
            THEN CollapseWhitespace(Tail(s))
            ELSE <<"-">> \o CollapseWhitespace(Tail(s))
       ELSE <<Head(s)>> \o CollapseWhitespace(Tail(s))

\* the class [A-Za-z0-9._-]
SlugChar(c) ==
  c \in Range(UpperCase) \cup Range(LowerCase) \cup Range(Digits) \cup {".", "_", "-"}

\* re.sub(r"[^A-Za-z0-9._-]", "", value)
StripUnsafe(s) == SelectSeq(s, SlugChar)

FIGURE == <<"f", "i", "g", "u", "r", "e">>

\* a variant that collapses whitespace without trimming the ends first
SlugifyNoStrip(value) ==
  LET v == StripUnsafe(CollapseWhitespace(value))
  IN  IF v = <<>> THEN FIGURE ELSE v

\* slugify(value)
Slugify(value) ==
  LET v == StripUnsafe(CollapseWhitespace(Strip(value)))
  IN  IF v = <<>> THEN FIGURE ELSE v

(***************************************************************************)
(* Visualizer (visualizer.py) and Summarizer (summary.py)                  *)
(***************************************************************************)
PNG == <<".", "p", "n", "g">>

HIST == <<"_", "h", "i", "s", "t">>

\* a variant that names every chart by the suffix alone
TimeseriesPathNoSlug(col, suffix) == suffix \o PNG

\* outdir / f"{slugify(col)}{suffix}.png" (the file name under outdir)
TimeseriesPath(col, suffix) == Slugify(col) \o suffix \o PNG

\* outdir / f"{slugify(col)}_hist{suffix}.png"
HistogramPath(col, suffix) == Slugify(col) \o HIST \o suffix \o PNG

\* a variant that writes a chart for every requested name
TimeseriesNoSkip(t, value_cols, suffix) ==
  [i \in 1..Len(value_cols) |-> TimeseriesPath(value_cols[i], suffix)]

RECURSIVE Timeseries(_, _, _)
\* Visualizer.timeseries: the paths written, in order
Timeseries(t, value_cols, suffix) ==
  IF value_cols = <<>> THEN <<>>
  ELSE (IF HasCol(t, Head(value_cols))
        THEN <<TimeseriesPath(Head(value_cols), suffix)>>
        ELSE <<>>) \o Timeseries(t, Tail(value_cols), suffix)

\* a variant without the dropna()
NumericValuesKeepNaN(t, col) ==
  [i \in 1..Len(t.rows) |-> CellToNumeric(t.rows[i][col])]

\* pd.to_numeric(df[col], errors="coerce").dropna()
NumericValues(t, col) ==
  LET IsNum(c) == c.k = "num"
  IN  SelectSeq([i \in 1..Len(t.rows) |-> CellToNumeric(t.rows[i][col])], IsNum)

\* a variant that rounds the square root to the nearest integer
ISqrtRounded(m) == CHOOSE r \in 0..m : r * r - r < m /\ m <= r * r + r

\* int(np.sqrt(m))
ISqrt(m) == CHOOSE r \in 0..m : r * r <= m /\ m < (r + 1) * (r + 1)

MinBins == 10

MaxBins == 50

Max2(a, b) == IF a > b THEN a ELSE b

Min2(a, b) == IF a < b THEN a ELSE b

\* auto_bins = max(10, min(50, int(np.sqrt(len(series))))) if bins == 0 else bins
AutoBins(m, bins) ==
  IF bins = 0 THEN Max2(MinBins, Min2(MaxBins, ISqrt(m))) ELSE bins

RECURSIVE HistogramFigures(_, _, _, _)
\* Visualizer.histograms: the figures drawn, in order, each with the bin
\* count handed to ax.hist and the path it is saved to
HistogramFigures(t, value_cols, bins, suffix) ==
  IF value_cols = <<>> THEN <<>>
  ELSE LET col == Head(value_cols)
           vs  == IF HasCol(t, col) THEN NumericValues(t, col) ELSE <<>>
       IN  (IF vs # <<>>
            THEN <<[path |-> HistogramPath(col, suffix),
                    bins |-> AutoBins(Len(vs), bins)]>>
            ELSE <<>>) \o HistogramFigures(t, Tail(value_cols), bins, suffix)

\* the list of paths histograms() returns
Histograms(t, value_cols, bins, suffix) ==
  LET figs == HistogramFigures(t, value_cols, bins, suffix)
  IN  [i \in 1..Len(figs) |-> figs[i].path]

RECURSIVE SummarizerTable(_, _)
\* Summarizer.table: one row per present column with numeric data
\* (mean and std are not modelled)
SummarizerTable(t, cols) ==
  IF cols = <<>> THEN <<>>
  ELSE LET col == Head(cols)
           vs  == IF HasCol(t, col) THEN NumericValues(t, col) ELSE <<>>
       IN  (IF vs # <<>>
            THEN <<[column |-> col, count |-> Len(vs),
                    min |-> AggMin(vs), max |-> AggMax(vs)]>>
            ELSE <<>>) \o SummarizerTable(t, Tail(cols))

(***************************************************************************)
(* main() (__main__.py), one action per numbered step                      *)
(***************************************************************************)
EmptyTable == [cols |-> <<>>, rows |-> <<>>]

NoResample == [kind |-> "none", table |-> EmptyTable]

\* wanted_cols = args.value_cols or []
WantedCols == args.value_cols

\* numeric_cols = args.numeric_cols if args.numeric_cols else wanted_cols
NumericCols ==
  IF args.numeric_cols.some /\ args.numeric_cols.s # <<>>
  THEN args.numeric_cols.s ELSE WantedCols

\* target = resampled if resampled is not None else df
Target == IF resampled.kind = "table" THEN resampled.table ELSE df

\* suffix = "" if resampled is None else f"_{args.resample}_{args.agg}"
Suffix ==
  IF resampled.kind = "table"
  THEN <<"_">> \o args.resample.s \o <<"_">> \o args.agg ELSE <<>>

\* steps 1 and 2: load, the guardrails and the inspect-only mode
LoadStep ==
  /\ last' = "load"
  /\ pc = "load"
  /\ \E r \in Load(raw, args.datetime_col) :
       /\ df' = r.df
       /\ loaded' = r.df
       /\ dtcol' = r.dtcol
       /\ pc' = IF r.raised THEN "crash"
                ELSE IF r.df.rows = <<>> \/ r.df.cols = <<>> THEN "exit"
                ELSE IF ~r.dtcol.some \/ ~HasCol(r.df, r.dtcol.s)
                THEN (IF args.inspect THEN "done" ELSE "exit")
                ELSE IF args.inspect THEN "done"
                ELSE "numeric"
  /\ pre' = EmptyTable
  /\ UNCHANGED <<args, raw, resampled, files, result>>

\* step 4: df = DataProcessor.to_numeric(df, numeric_cols)
ToNumericStep ==
  /\ last' = "numeric"
  /\ pc = "numeric"
  /\ df' = ToNumeric(df, NumericCols)
  /\ pre' = df
  /\ pc' = IF args.trace_as_zero THEN "trace" ELSE "filter"
  /\ UNCHANGED <<args, raw, loaded, dtcol, resampled, files, result>>

TRACE == <<"T", "r", "a", "c", "e">>

\* step 4: if args.trace_as_zero: df = handle_trace_values(df, numeric_cols,
\*         trace_token="Trace", replacement=0.0)
TraceStep ==
  /\ last' = "trace"
  /\ pc = "trace"
  /\ df' = HandleTraceValues(df, NumericCols, TRACE, Num(0, 1))
  /\ pre' = df
  /\ pc' = "filter"
  /\ UNCHANGED <<args, raw, loaded, dtcol, resampled, files, result>>

\* step 5: df = DataProcessor.filter_date_range(df, dtcol, args.start, args.end)
FilterStep ==
  /\ last' = "filter"
  /\ pc = "filter"
  /\ df' = FilterDateRange(df, dtcol.s, args.start, args.end)
  /\ pre' = df
  /\ pc' = "resample"
  /\ UNCHANGED <<args, raw, loaded, dtcol, resampled, files, result>>

\* step 6: resampled = DataProcessor.resample(...) if args.resample else None
ResampleStep ==
  /\ last' = "resample"
  /\ pc = "resample"
  /\ LET r == IF Truthy(args.resample)
              THEN Resample(df, dtcol.s, args.resample, args.agg, WantedCols)
              ELSE NoResample
     IN  /\ resampled' = r
         /\ pc' = IF r.kind = "exit" THEN "exit" ELSE "summary"
  /\ pre' = df
  /\ UNCHANGED <<args, raw, loaded, df, dtcol, files, result>>

SUMMARY == <<"s", "u", "m", "m", "a", "r", "y">>

CSV == <<".", "c", "s", "v">>

\* step 7: the summary table, saved when it has rows
SummaryStep ==
  /\ last' = "summary"
  /\ pc = "summary"
  /\ IF args.summary /\ WantedCols # <<>>
     THEN LET sdf == SummarizerTable(Target, WantedCols)
          IN  /\ result' = sdf
              /\ files' = IF sdf # <<>>
                          THEN Append(files, SUMMARY \o Suffix \o CSV)
                          ELSE files
     ELSE UNCHANGED <<files, result>>
  /\ pc' = "timeseries"
  /\ UNCHANGED <<args, raw, loaded, df, dtcol, pre, resampled>>

\* step 8: one chart per value column
TimeseriesStep ==
  /\ last' = "timeseries"
  /\ pc = "timeseries"
  /\ IF args.timeseries /\ WantedCols # <<>>
     THEN LET paths == Timeseries(Target, WantedCols, Suffix)
          IN  /\ result' = paths
              /\ files' = files \o paths
     ELSE UNCHANGED <<files, result>>
  /\ pc' = "hist"
  /\ UNCHANGED <<args, raw, loaded, df, dtcol, pre, resampled>>

\* step 9: one histogram per value column with numeric data
HistStep ==
  /\ last' = "hist"
  /\ pc = "hist"
  /\ IF args.hist /\ WantedCols # <<>>
     THEN LET figs == HistogramFigures(Target, WantedCols, args.bins, Suffix)
          IN  /\ result' = figs
              /\ files' = files \o [i \in 1..Len(figs) |-> figs[i].path]
     ELSE UNCHANGED <<files, result>>
  /\ pc' = "export"
  /\ UNCHANGED <<args, raw, loaded, df, dtcol, pre, resampled>>

DATACLEAN == <<"d", "a", "t", "a", "_", "c", "l", "e", "a", "n">>

DATARESAMPLED ==
  <<"d", "a", "t", "a", "_", "r", "e", "s", "a", "m", "p", "l", "e", "d">>

\* step 10: export the cleaned or resampled table
ExportStep ==
  /\ last' = "export"
  /\ pc = "export"
  /\ files' = IF args.export_clean
              THEN Append(files, IF resampled.kind = "table"
                                 THEN DATARESAMPLED \o Suffix \o CSV
                                 ELSE DATACLEAN \o CSV)
              ELSE files
  /\ pc' = "done"
  /\ UNCHANGED <<args, raw, loaded, df, dtcol, pre, resampled, result>>

(***************************************************************************)
(* Inputs                                                                  *)
(***************************************************************************)
DATETIME == <<"D", "a", "t", "e", "/", "T", "i", "m", "e">>

PRECIP == <<"P", "r", "e", "c", "i", "p">>

WIND == <<"W", "i", "n", "d">>

DAILY == <<"D">>

BOGUS == <<"m", "o", "d", "e">>

NoCols == [some |-> FALSE, s |-> <<>>]

\* the defaults of cli.parse_args
DefaultArgs ==
  [datetime_col |-> NoArg, value_cols |-> <<>>, numeric_cols |-> NoCols,
   start |-> NoArg, end |-> NoArg, inspect |-> FALSE, timeseries |-> FALSE,
   hist |-> FALSE, summary |-> FALSE, export_clean |-> FALSE,
   trace_as_zero |-> FALSE, resample |-> NoArg, agg |-> MEAN, bins |-> 0]

\* all sequences over S of length at most m
SeqsUpTo(S, m) == UNION {[1..k -> S] : k \in 0..m}

MaxRows == 2

\* the rows of a two-column weather file
MainRows ==
  {[c \in {DATETIME, PRECIP} |-> IF c = DATETIME THEN d ELSE v] :
     d \in {<<"1", "a">>, <<"2", "a">>, <<"x">>},
     v \in {TRACE, <<"2">>, <<>>}}

MainFiles ==
  {[cols |-> <<DATETIME, PRECIP>>, rows |-> rs] : rs \in SeqsUpTo(MainRows, MaxRows)}

MainArgs ==
  {[DefaultArgs EXCEPT !.datetime_col = dc, !.value_cols = vc, !.start = st,
                       !.trace_as_zero = tz, !.resample = rs, !.agg = ag,
                       !.timeseries = out, !.hist = out, !.summary = out,
                       !.export_clean = out, !.inspect = FALSE] :
     dc \in {NoArg},
     vc \in {<<PRECIP>>, <<PRECIP, WIND>>},
     st \in {NoArg, Arg(<<"2", "a">>)},
     tz \in BOOLEAN,
     rs \in {NoArg, Arg(DAILY)},
     ag \in {MEAN, SUM, BOGUS},
     out \in BOOLEAN}
    \cup {[DefaultArgs EXCEPT !.inspect = TRUE, !.datetime_col = dc] :
            dc \in {NoArg, Arg(WIND)}}
    \cup {[DefaultArgs EXCEPT !.datetime_col = Arg(WIND)]}
    \cup {[DefaultArgs EXCEPT !.datetime_col = Arg(DATETIME), !.value_cols = <<PRECIP>>,
                              !.numeric_cols = [some |-> TRUE, s |-> nc],
                              !.start = st, !.end = en, !.trace_as_zero = TRUE,
                              !.summary = TRUE, !.export_clean = TRUE] :
            nc \in {<<>>, <<PRECIP>>, <<WIND>>},
            st \in {NoArg, Arg(<<"x">>)},
            en \in {NoArg, Arg(<<"1", "a">>)}}
    \* --numeric-cols naming the datetime column itself
    \cup {[DefaultArgs EXCEPT !.datetime_col = Arg(DATETIME), !.value_cols = <<PRECIP>>,
                              !.numeric_cols = [some |-> TRUE, s |-> <<DATETIME, PRECIP>>],
                              !.trace_as_zero = TRUE, !.summary = TRUE,
                              !.export_clean = TRUE]}

\* main() is entered with a parsed command line and a file on disk
Init ==
  /\ pc = "load"
  /\ args \in MainArgs
  /\ raw \in MainFiles
  /\ loaded = EmptyTable
  /\ df = EmptyTable
  /\ dtcol = NoArg
  /\ pre = EmptyTable
  /\ resampled = NoResample
  /\ files = <<>>
  /\ result = <<>>
  /\ last = "none"

Next ==
  \/ LoadStep
  \/ ToNumericStep
  \/ TraceStep
  \/ FilterStep
  \/ ResampleStep
  \/ SummaryStep
  \/ TimeseriesStep
  \/ HistStep
  \/ ExportStep

Spec == Init /\ [][Next]_vars

(***************************************************************************)
(* CSVLoader.load on its own: files with date-like, text and bool columns  *)
(***************************************************************************)
CLOCK == <<"T", "i", "m", "e">>

STAMP == <<"S", "t", "a", "m", "p">>

LoadNames == {DATETIME, CLOCK, STAMP}

LoadFields == {<<"2", "a">>, <<"1", "p">>, <<"x">>}

MaxLoadRows == 2

TallRows == 5

\* the orderings of two, and of all three, distinct column names
ColumnPairs == {cs \in [1..2 -> LoadNames] : cs[1] # cs[2]}

ColumnTriples ==
  {cs \in [1..3 -> LoadNames] : cs[1] # cs[2] /\ cs[1] # cs[3] /\ cs[2] # cs[3]}

\* two distinct columns, every field combination, up to MaxLoadRows rows
SmallFiles ==
  UNION {{[cols |-> cs, rows |-> rs] :
            rs \in SeqsUpTo([Range(cs) -> LoadFields], MaxLoadRows)} :
         cs \in ColumnPairs}

\* three columns, TallRows rows; in each column the first g rows are dates,
\* latest day first
TallFiles ==
  {[cols |-> cs,
    rows |-> [i \in 1..TallRows |->
                [n \in LoadNames |->
                   IF i <= g[n] THEN <<Digits[TallRows - i + 2], "a">>
                   ELSE <<"x">>]]] :
     cs \in ColumnTriples, g \in [LoadNames -> 0..TallRows]}

\* two columns, two rows: one column of True/False fields beside any other
BoolFiles ==
  UNION {{[cols |-> cs,
           rows |-> [i \in 1..2 |->
                       [n \in Range(cs) |-> IF n = cs[1] THEN b[i] ELSE f[i]]]] :
            b \in [1..2 -> {TRUETEXT, FALSETEXT}],
            f \in [1..2 -> LoadFields \cup {TRUETEXT}]} :
         cs \in ColumnPairs}

LoadFiles == SmallFiles \cup TallFiles \cup BoolFiles

InitLoad ==
  /\ pc = "load"
  /\ args \in {[DefaultArgs EXCEPT !.datetime_col = dc] :
                 dc \in {NoArg, Arg(DATETIME), Arg(STAMP)}}
  /\ raw \in LoadFiles
  /\ loaded = EmptyTable
  /\ df = EmptyTable
  /\ dtcol = NoArg
  /\ pre = EmptyTable
  /\ resampled = NoResample
  /\ files = <<>>
  /\ result = <<>>
  /\ last = "none"

NextLoad == LoadStep

SpecLoad == InitLoad /\ [][NextLoad]_vars

\* the file as pd.read_csv returns it
Frame == ReadCsv(raw)

Score(c) == ScoreDatetime(Column(Frame, c))

Detecting == pc # "load" /\ ~args.datetime_col.some

\* the columns, by position, whose name holds "date" or "time" and whose
\* score is at least 0.8
NamedHits ==
  {i \in DOMAIN Frame.cols : NameCandidate(Frame.cols[i]) /\ ScoreOk(Score(Frame.cols[i]))}

\* C6: when some column named like a date or time scores at least 0.8,
\* detection returns the first such column in column order, whatever the
\* other columns score.
C6_NamePreference ==
  (Detecting /\ NamedHits # {}) =>
     /\ dtcol.some
     /\ \E i \in NamedHits : dtcol.s = Frame.cols[i] /\ \A j \in NamedHits : i <= j

\* a named column is chosen although an unnamed column before it scores at
\* least as much, and a later named column also qualifies
C6_Witness ==
  /\ Detecting
  /\ Cardinality(NamedHits) >= 2
  /\ \E i \in DOMAIN Frame.cols :
       /\ ~NameCandidate(Frame.cols[i])
       /\ ScoreOk(Score(Frame.cols[i]))
       /\ \A j \in NamedHits : i < j /\ RLeq(Score(Frame.cols[j]), Score(Frame.cols[i]))
  /\ dtcol.some /\ NameCandidate(dtcol.s)

\* C7: when no named column scores at least 0.8, detection returns a column
\* of maximal score if that score is at least 0.8 and none otherwise; so it
\* returns none exactly when no column scores at least 0.8; a column whose
\* parsing raises counts as score 0 and is never returned.
C7_Fallback ==
  Detecting =>
     /\ pc # "crash"
     /\ (NamedHits = {} /\ dtcol.some) =>
          /\ HasCol(Frame, dtcol.s)
          /\ ScoreOk(Score(dtcol.s))
          /\ \A i \in DOMAIN Frame.cols : RLeq(Score(Frame.cols[i]), Score(dtcol.s))
     /\ ~dtcol.some <=> \A i \in DOMAIN Frame.cols : ~ScoreOk(Score(Frame.cols[i]))
     /\ dtcol.some => ~ToDatetimeRaises(Column(Frame, dtcol.s))

\* the fallback picks an unnamed column while a named column scores below
\* the threshold
C7_Witness ==
  /\ Detecting
  /\ NamedHits = {}
  /\ dtcol.some /\ ~NameCandidate(dtcol.s)
  /\ \E i \in DOMAIN Frame.cols :
       NameCandidate(Frame.cols[i]) /\ Score(Frame.cols[i]).n > 0

\* the number of positions of rows holding r
Count(rows, r) == Cardinality({i \in DOMAIN rows : rows[i] = r})

\* the input rows with the datetime column parsed
ParsedRows == ParseDatetimeCol(Frame, dtcol.s).rows

Resolved == pc \notin {"load", "crash"} /\ dtcol.some /\ HasCol(Frame, dtcol.s)

\* C8: once load has resolved a datetime column of the table, the table it
\* returns holds exactly the input rows whose value in that column parses,
\* each as often as in the input, in ascending order of that column.
C8_LoadDropsAndSorts ==
  Resolved =>
     /\ df.cols = Frame.cols
     /\ \A i \in DOMAIN df.rows :
          df.rows[i][dtcol.s].k = "ts" /\ Count(df.rows, df.rows[i]) = Count(ParsedRows, df.rows[i])
     /\ \A i \in DOMAIN ParsedRows :
          Count(df.rows, ParsedRows[i]) =
            IF ParsedRows[i][dtcol.s].k = "ts" THEN Count(ParsedRows, ParsedRows[i]) ELSE 0
     /\ \A i, j \in DOMAIN df.rows : i < j => df.rows[i][dtcol.s].n <= df.rows[j][dtcol.s].n

\* a row was dropped and the remaining rows were reordered
C8_Witness ==
  /\ Resolved
  /\ Len(df.rows) >= 2
  /\ Len(df.rows) < Len(ParsedRows)
  /\ \E i, j \in DOMAIN ParsedRows :
       /\ i < j
       /\ ParsedRows[i][dtcol.s].k = "ts" /\ ParsedRows[j][dtcol.s].k = "ts"
       /\ ParsedRows[j][dtcol.s].n < ParsedRows[i][dtcol.s].n

(***************************************************************************)
(* DataProcessor.filter_date_range on its own                              *)
(***************************************************************************)
MaxFilterRows == 3

FilterStamps == {2, 3, 4}

\* tables with a parsed datetime column and one value column, in any order
FilterTables ==
  {[cols |-> <<DATETIME, PRECIP>>, rows |-> rs] :
     rs \in SeqsUpTo({[c \in {DATETIME, PRECIP} |->
                         IF c = DATETIME THEN Ts(t) ELSE Num(v, 1)] :
                        t \in FilterStamps, v \in {1, 2}},
                     MaxFilterRows)}

\* --start / --end: absent, empty, unparsable, or a date
BoundArgs ==
  {NoArg, Arg(<<>>), Arg(<<"x">>), Arg(<<"1", "a">>), Arg(<<"1", "p">>)}

InitFilter ==
  /\ pc = "filter"
  /\ args \in {[DefaultArgs EXCEPT !.start = st, !.end = en, !.value_cols = <<PRECIP>>] :
                 st \in BoundArgs, en \in BoundArgs}
  /\ raw = EmptyTable
  /\ df \in FilterTables
  /\ loaded = df
  /\ dtcol \in {Arg(DATETIME), Arg(STAMP)}
  /\ pre = EmptyTable
  /\ resampled = NoResample
  /\ files = <<>>
  /\ result = <<>>
  /\ last = "none"

NextFilter == FilterStep

SpecFilter == InitFilter /\ [][NextFilter]_vars

Filtered == pc = "resample"

\* a bound that was provided and does not parse
Unparsable(b) == b.some /\ ParseDatetime(b.s).k = "nat"

\* C2 as stated: an unparsable bound acts as a bound that was not provided.
C2_UnparsableBoundIsVacuous ==
  Filtered =>
     /\ Unparsable(args.start) => df = FilterDateRange(pre, dtcol.s, NoArg, args.end)
     /\ Unparsable(args.end) => df = FilterDateRange(pre, dtcol.s, args.start, NoArg)

\* C2, amended: with the datetime column present, a non-empty unparsable
\* bound removes every row (and raises nothing); only the empty string acts
\* as a bound that was not provided.
C2_UnparsableBoundEmptiesTable ==
  (Filtered /\ HasCol(pre, dtcol.s)) =>
     /\ ((Unparsable(args.start) /\ args.start.s # <<>>)
           \/ (Unparsable(args.end) /\ args.end.s # <<>>))
          => (df.rows = <<>> /\ df.cols = pre.cols)
     /\ (args.start.s = <<>> /\ args.end.s = <<>>) => df = pre

\* rows were there to keep, the other bound admits them, and the start bound
\* does not parse
C2_Witness ==
  /\ Filtered /\ HasCol(pre, dtcol.s)
  /\ Unparsable(args.start) /\ args.start.s # <<>>
  /\ ~args.end.some
  /\ pre.rows # <<>>
  /\ df.rows = <<>>

\* a bound that constrains: provided and parsable
Bounding(b) == b.some /\ ParseDatetime(b.s).k = "ts"

\* the rows a closed interval keeps
InRange(r) ==
  /\ Bounding(args.start) => ParseDatetime(args.start.s).n <= r[dtcol.s].n
  /\ Bounding(args.end) => r[dtcol.s].n <= ParseDatetime(args.end.s).n

\* C9: with bounds that are absent or parsable, the rows kept are exactly
\* those with start <= timestamp <= end, both ends included, in their
\* order; without the datetime column the table is returned unchanged.
C9_InclusiveRange ==
  Filtered =>
     /\ (HasCol(pre, dtcol.s) /\ (Bounding(args.start) \/ ~args.start.some)
           /\ (Bounding(args.end) \/ ~args.end.some))
          => (df.cols = pre.cols /\ df.rows = SelectSeq(pre.rows, InRange))
     /\ ~HasCol(pre, dtcol.s) => df = pre

\* a row on the start bound and a row on the end bound are kept while
\* another row is dropped
C9_Witness ==
  /\ Filtered /\ HasCol(pre, dtcol.s)
  /\ Bounding(args.start) /\ Bounding(args.end)
  /\ Len(df.rows) < Len(pre.rows)
  /\ \E i \in DOMAIN df.rows : df.rows[i][dtcol.s] = ParseDatetime(args.start.s)
  /\ \E i \in DOMAIN df.rows : df.rows[i][dtcol.s] = ParseDatetime(args.end.s)
  /\ ParseDatetime(args.start.s) # ParseDatetime(args.end.s)

(***************************************************************************)
(* DataProcessor.resample on its own                                       *)
(***************************************************************************)
TEMP == <<"T", "e", "m", "p">>

MaxResampleRows == 3

\* day 1 at 00:00 and 12:00, day 3 at 00:00: two rows can share a day and
\* day 2 can stay empty
ResampleStamps == {2, 3, 6}

ResampleRowSet ==
  {[c \in {DATETIME, PRECIP, TEMP} |->
      CASE c = DATETIME -> Ts(t) [] c = PRECIP -> p [] OTHER -> q] :
     t \in ResampleStamps, p \in {NaN, Num(2, 1), Num(4, 1)}, q \in {NaN, Num(1, 1)}}

\* cleaned tables, time-ordered as load leaves them
ResampleTables ==
  {[cols |-> <<DATETIME, PRECIP, TEMP>>, rows |-> rs] :
     rs \in {s \in SeqsUpTo(ResampleRowSet, MaxResampleRows) :
               \A i \in 1..(Len(s) - 1) : s[i][DATETIME].n <= s[i + 1][DATETIME].n}}

ResampleArgs ==
  {[DefaultArgs EXCEPT !.resample = Arg(DAILY), !.agg = ag, !.value_cols = vc] :
     ag \in SupportedAggs, vc \in {<<PRECIP>>}}
    \cup {[DefaultArgs EXCEPT !.resample = Arg(DAILY), !.agg = ag,
                              !.value_cols = <<PRECIP, TEMP>>] : ag \in {MEAN, SUM}}
    \cup {[DefaultArgs EXCEPT !.resample = Arg(DAILY), !.agg = BOGUS, !.value_cols = <<PRECIP>>],
          [DefaultArgs EXCEPT !.resample = Arg(DAILY), !.value_cols = <<PRECIP, WIND>>],
          [DefaultArgs EXCEPT !.resample = Arg(DAILY), !.agg = BOGUS,
                              !.value_cols = <<PRECIP, WIND>>],
          [DefaultArgs EXCEPT !.resample = Arg(<<>>), !.value_cols = <<PRECIP>>],
          [DefaultArgs EXCEPT !.value_cols = <<PRECIP>>]}

InitResample ==
  /\ pc = "resample"
  /\ args \in ResampleArgs
  /\ raw = EmptyTable
  /\ df \in {t \in ResampleTables :
               \* a column that is not selected stays empty
               \/ \E i \in DOMAIN args.value_cols : args.value_cols[i] = TEMP
               \/ \A i \in DOMAIN t.rows : t.rows[i][TEMP] = NaN}
  /\ loaded = df
  \* the resolved datetime column, or a column the table does not have
  /\ dtcol \in {Arg(DATETIME)}
               \cup (IF args.value_cols = <<PRECIP>> /\ args.agg \in {MEAN, BOGUS}
                     THEN {Arg(STAMP)} ELSE {})
  /\ pre = EmptyTable
  /\ resampled = NoResample
  /\ files = <<>>
  /\ result = <<>>
  /\ last = "none"

NextResample == ResampleStep

SpecResample == InitResample /\ [][NextResample]_vars

\* resample returned a table
Resampled == pc = "summary" /\ resampled.kind = "table"

Out == resampled.table.rows

\* the positions of the input rows of day b whose column c is not missing
Present(c, b) ==
  {i \in DOMAIN df.rows : df.rows[i][DATETIME].n \div 2 = b /\ df.rows[i][c].k = "num"}

\* every selected column has only missing values on day b
AllMissing(b) == \A c \in Range(WantedCols) : Present(c, b) = {}

InputDays == {df.rows[i][DATETIME].n \div 2 : i \in DOMAIN df.rows}

\* the days from the first to the last day of the input
SpanDays ==
  {b \in 0..9 : (\E x \in InputDays : x <= b) /\ (\E y \in InputDays : b <= y)}

OutDays == {Out[i][DATETIME].n \div 2 : i \in DOMAIN Out}

\* C3 as stated: under every aggregation the output has no row for a day
\* on which every selected column is entirely missing.
C3_AllMissingBucketsDropped ==
  Resampled => \A b \in OutDays : ~AllMissing(b)

\* C3, amended: under mean, min, max and median the output has no row for
\* such a day; under sum every such day between the first and the last day
\* of the input is kept, with 0 in every selected column.
C3_AllMissingBucketsDroppedUnlessSum ==
  Resampled =>
     /\ args.agg # SUM => \A b \in OutDays : ~AllMissing(b)
     /\ args.agg = SUM =>
          \A b \in SpanDays :
             AllMissing(b) =>
                \E i \in DOMAIN Out :
                   /\ Out[i][DATETIME] = Ts(2 * b)
                   /\ \A c \in Range(WantedCols) : Out[i][c] = Num(0, 1)

\* one day has data, an empty day follows or precedes it inside the span,
\* and another day has rows with nothing but missing values
C3_Witness ==
  /\ Resampled
  /\ args.agg # SUM
  /\ Len(Out) = 1
  /\ \E b \in SpanDays : AllMissing(b) /\ b \notin InputDays
  /\ \E b \in InputDays : AllMissing(b)

\* the values of column c on day b, in row order
DayValues(c, b) ==
  LET In(r) == r[DATETIME].n \div 2 = b /\ r[c].k = "num"
      sel == SelectSeq(df.rows, In)
  IN  [i \in 1..Len(sel) |-> sel[i][c]]

\* the k-th smallest of a non-empty sequence of numbers
KthSmallest(vs, k) ==
  CHOOSE a \in Range(vs) :
    /\ Cardinality({i \in DOMAIN vs : RLess(vs[i], a)}) < k
    /\ k <= Cardinality({i \in DOMAIN vs : RLeq(vs[i], a)})

\* x is the named aggregation of the non-empty sequence vs
IsAggregate(x, vs) ==
  LET m == Len(vs)
  IN  /\ x.k = "num"
      /\ args.agg = MEAN => Num(x.n * m, x.d) = SumSeq(vs)
      /\ args.agg = SUM => x = SumSeq(vs)
      /\ args.agg = MIN => x \in Range(vs) /\ \A i \in DOMAIN vs : RLeq(x, vs[i])
      /\ args.agg = MAX => x \in Range(vs) /\ \A i \in DOMAIN vs : RLeq(vs[i], x)
      /\ args.agg = MEDIAN =>
           IF m % 2 = 1 THEN x = KthSmallest(vs, (m + 1) \div 2)
           ELSE Num(2 * x.n, x.d) = RAdd(KthSmallest(vs, m \div 2), KthSmallest(vs, m \div 2 + 1))

\* C10: the output has the bucket timestamp as its first column and one row
\* per retained day, in time order; a day with a value in some selected
\* column is retained; each value is the named aggregation of the column's
\* non-missing values of that day (missing, or 0 under sum, when there are
\* none).
C10_BucketAggregates ==
  Resampled =>
     /\ resampled.table.cols = <<dtcol.s>> \o WantedCols
     /\ \A i, j \in DOMAIN Out : i < j => Out[i][DATETIME].n < Out[j][DATETIME].n
     /\ \A b \in InputDays : ~AllMissing(b) => b \in OutDays
     /\ \A i \in DOMAIN Out :
          /\ Out[i][DATETIME].k = "ts" /\ Out[i][DATETIME].n % 2 = 0
          /\ \A c \in Range(WantedCols) :
               LET vs == DayValues(c, Out[i][DATETIME].n \div 2)
               IN  IF vs = <<>>
                   THEN Out[i][c] = IF args.agg = SUM THEN Num(0, 1) ELSE NaN
                   ELSE IsAggregate(Out[i][c], vs)

\* the mean of 2.0 and 4.0 on one day is 3.0, in a table that has another
\* day as well
C10_Witness ==
  /\ Resampled
  /\ args.agg = MEAN
  /\ Len(Out) = 2
  /\ DayValues(PRECIP, 1) \in {<<Num(2, 1), Num(4, 1)>>, <<Num(4, 1), Num(2, 1)>>}
  /\ Out[1][PRECIP] = Num(3, 1)

\* the frequency is None or the empty string
FreqFalsy == ~args.resample.some \/ args.resample.s = <<>>

\* name c is not a column of the table resample was called on
Absent(c) == \A j \in DOMAIN loaded.cols : loaded.cols[j] # c

\* the three conditions under which resample gives up
GivesUp ==
  FreqFalsy \/ Absent(dtcol.s) \/ \E i \in DOMAIN WantedCols : Absent(WantedCols[i])

\* C11: resample returns none, without raising and without modifying the
\* input table, whenever the frequency is falsy or the datetime column is
\* absent or some requested value column is absent; in every other case
\* it returns a table or aborts
C11_NoneExactlyWhenGuarded ==
  last = "resample" =>
    /\ df = loaded
    /\ IF GivesUp
       THEN resampled.kind = "none" /\ pc = "summary"
       ELSE \/ resampled.kind = "table" /\ pc = "summary"
            \/ resampled.kind = "exit" /\ pc = "exit"

\* a request naming an absent column next to a present one, with an
\* unsupported keyword, on a non-empty table: none, not an abort
C11_Witness ==
  /\ last = "resample"
  /\ ~FreqFalsy
  /\ ~Absent(dtcol.s)
  /\ WantedCols = <<PRECIP, WIND>>
  /\ Absent(WIND)
  /\ args.agg = BOGUS
  /\ df.rows # <<>>
  /\ resampled.kind = "none"
  /\ pc = "summary"

(***************************************************************************)
(* Visualizer.timeseries and Visualizer.histograms on their own            *)
(***************************************************************************)
\* column names, several of which slugify alike
VizNames ==
  {<<"T", " ", "(", "C", ")">>, <<"T", "-", "C">>, <<"T", " ", " ", "C">>,
   <<"T", "C">>, <<"(">>, <<"%">>, <<"T">>, <<" ", "T">>, <<"T", " ">>,
   <<"\t", "T", " ", "\t", "C">>, <<" ">>}

\* one-row tables with two distinct value columns, numeric or text
NameTables ==
  UNION {{[cols |-> <<DATETIME, cs[1], cs[2]>>,
           rows |-> <<[c \in {DATETIME, cs[1], cs[2]} |->
                         CASE c = DATETIME -> Ts(2) [] c = cs[1] -> x [] OTHER -> y]>>] :
            x \in {Num(1, 1), Str(<<"x">>)}, y \in {Num(1, 1), Str(<<"x">>)}} :
         cs \in {d \in [1..2 -> VizNames] : d[1] # d[2]}}

MaxHistRows == 125

\* row counts beyond MaxHistRows that reach the upper clamp
LargeCounts == {400, 2500, 2601, 10000}

\* tables of one value column with m numbers followed by k missing values
CountTables ==
  {[cols |-> <<DATETIME, PRECIP>>,
    rows |-> [i \in 1..(m + k) |->
                [c \in {DATETIME, PRECIP} |->
                   IF c = DATETIME THEN Ts(2)
                   ELSE IF i <= m THEN Num(1, 1) ELSE NaN]]] :
     m \in (0..MaxHistRows) \cup LargeCounts, k \in {0, 1}}

FixedBins == 7

InitViz ==
  /\ pc = "timeseries"
  /\ df \in NameTables \cup CountTables
  /\ args \in {[DefaultArgs EXCEPT !.value_cols = vc, !.bins = bn,
                                   !.timeseries = TRUE, !.hist = TRUE] :
                 vc \in {SubSeq(df.cols, 2, Len(df.cols)),
                         SubSeq(df.cols, 2, Len(df.cols)) \o <<WIND>>},
                 bn \in {0, FixedBins}}
  /\ raw = EmptyTable
  /\ loaded = df
  /\ dtcol = Arg(DATETIME)
  /\ pre = EmptyTable
  /\ resampled = NoResample
  /\ files = <<>>
  /\ result = <<>>
  /\ last = "none"

NextViz == TimeseriesStep \/ HistStep

SpecViz == InitViz /\ [][NextViz]_vars

\* the requested columns the table has, and those of them with numeric data
PresentCols == SelectSeq(WantedCols, LAMBDA c : HasCol(Target, c))

NumericColsPresent ==
  SelectSeq(PresentCols, LAMBDA c : \E i \in DOMAIN Target.rows :
                                      CellToNumeric(Target.rows[i][c]).k = "num")

NoDuplicates(s) == \A i, j \in DOMAIN s : i # j => s[i] # s[j]

\* C4 as stated: distinct requested column names give distinct chart paths
\* and distinct histogram paths, so no file of the run is written twice.
C4_DistinctPaths ==
  /\ pc = "hist" => NoDuplicates(result)
  /\ pc = "export" => NoDuplicates(files)

\* C4, amended: timeseries writes one path per requested present column
\* and histograms one per such column with numeric data; two of these
\* paths of one call differ exactly when the slugs of their (distinct)
\* column names differ, so columns with equal slugs share one file.
C4_DistinctPathsForDistinctSlugs ==
  /\ pc = "hist" =>
       /\ Len(result) = Len(PresentCols)
       /\ \A i, j \in DOMAIN result :
            (result[i] = result[j]) <=> (Slugify(PresentCols[i]) = Slugify(PresentCols[j]))
  /\ pc = "export" =>
       /\ Len(result) = Len(NumericColsPresent)
       /\ \A i, j \in DOMAIN result :
            (result[i].path = result[j].path)
              <=> (Slugify(NumericColsPresent[i]) = Slugify(NumericColsPresent[j]))

\* two charts and two histograms were written for names with different
\* slugs, one of them holding characters the slug drops
C4_Witness ==
  /\ pc = "export"
  /\ Len(result) = 2
  /\ Len(files) = 4
  /\ NoDuplicates(files)
  /\ \E i \in DOMAIN WantedCols : Slugify(WantedCols[i]) # WantedCols[i]

\* the number of non-missing numeric values of the histogram's column
Plotted == Len(NumericValues(Target, PRECIP))

HistogramDrawn ==
  pc = "export" /\ WantedCols[1] = PRECIP /\ Len(result) = 1

\* C5 as stated: with bins = 0 the bin count is round(sqrt(N)) clamped to
\* [10, 50]; otherwise the caller's count.
C5_RoundedSqrtBins ==
  HistogramDrawn =>
     IF args.bins = 0
     THEN LET m == Plotted
          IN  \E r \in 0..m :
                /\ r * r - r < m /\ m <= r * r + r
                /\ result[1].bins = Max2(10, Min2(50, r))
     ELSE result[1].bins = args.bins

\* C5, amended: with bins = 0 the bin count is the integer part of sqrt(N)
\* clamped to [10, 50]; otherwise the caller's count.
C5_FloorSqrtBins ==
  HistogramDrawn =>
     IF args.bins = 0
     THEN LET m == Plotted
          IN  \E r \in 0..m :
                /\ r * r <= m /\ m < (r + 1) * (r + 1)
                /\ result[1].bins = (IF r < 10 THEN 10 ELSE IF r > 50 THEN 50 ELSE r)
     ELSE result[1].bins = args.bins

\* automatic bins strictly inside the clamp, for a count that is no square
C5_Witness ==
  /\ HistogramDrawn
  /\ args.bins = 0
  /\ result[1].bins > 10 /\ result[1].bins < 50
  /\ result[1].bins * result[1].bins < Len(Target.rows)

RECURSIVE Flatten(_)
\* the concatenation of a sequence of strings
Flatten(ss) == IF ss = <<>> THEN <<>> ELSE Head(ss) \o Flatten(Tail(ss))

\* name with every maximal run of whitespace replaced by one hyphen and every
\* character outside [A-Za-z0-9._-] deleted: a whitespace character gives a
\* hyphen when it starts its run and nothing otherwise
HyphenatedAndCleaned(name) ==
  Flatten([i \in DOMAIN name |->
             IF name[i] \in {" ", "\t"}
             THEN (IF i > 1 /\ name[i - 1] \in {" ", "\t"} THEN <<>> ELSE <<"-">>)
             ELSE IF SlugChar(name[i]) THEN <<name[i]>> ELSE <<>>])

\* name without its leading and trailing whitespace
Trimmed(name) ==
  LET inked == {i \in DOMAIN name : name[i] \notin {" ", "\t"}}
  IN  IF inked = {} THEN <<>>
      ELSE SubSeq(name, CHOOSE i \in inked : \A j \in inked : i <= j,
                        CHOOSE i \in inked : \A j \in inked : j <= i)

OrFigure(v) == IF v = <<>> THEN FIGURE ELSE v

\* the slug a chart path starts with: the path without ".png" (the suffix
\* is empty when nothing was resampled)
SlugOf(path) == SubSeq(path, 1, Len(path) - Len(Suffix) - Len(PNG))

IsTraceText(c) == c.k = "str" /\ Lower(Strip(c.s)) = Lower(TRACE)

\* C1: in a run with --trace-as-zero, once to_numeric and then
\* handle_trace_values have run, every cell of a numeric column that was
\* loaded as the text "Trace" holds 0.0.
C1_TraceCellsBecomeZero ==
  (pc = "filter" /\ args.trace_as_zero) =>
     \A i \in DOMAIN loaded.rows :
        \A c \in Range(NumericCols) :
           (HasCol(loaded, c) /\ IsTraceText(loaded.rows[i][c]))
              => df.rows[i][c] = Num(0, 1)

\* the steps after resample: the run got past the aggregation
PastResample == pc \in {"summary", "timeseries", "hist", "export", "done"}

\* C12 as stated: a run whose aggregation keyword is not one of mean, sum,
\* min, max, median aborts before anything is written, so it never
\* completes and never has a file on disk
C12_UnknownAggAlwaysAborts ==
  args.agg \notin {MEAN, SUM, MIN, MAX, MEDIAN} => pc # "done" /\ files = <<>>

\* C12: a run that gets past loading with an unsupported aggregation keyword
\* aborts exactly when resampling is requested with a non-empty frequency
\* and every requested value column is present; the abort happens at the
\* resample step, before any file has been written; otherwise the keyword
\* is never examined and the run goes on
C12_UnknownAggAbortsWhenResampling ==
  /\ last = "resample" =>
        (pc = "exit" <=> args.agg \notin {MEAN, SUM, MIN, MAX, MEDIAN} /\ ~GivesUp)
  /\ resampled.kind = "exit" => pc = "exit" /\ last = "resample"
  /\ pc = "exit" => files = <<>>
  /\ PastResample => args.agg \in {MEAN, SUM, MIN, MAX, MEDIAN} \/ GivesUp

\* the abort of a run that asked for outputs, on a table with rows
C12_Witness ==
  /\ pc = "exit"
  /\ last = "resample"
  /\ resampled.kind = "exit"
  /\ args.agg = BOGUS
  /\ args.summary /\ args.timeseries /\ args.hist /\ args.export_clean
  /\ df.rows # <<>>
  /\ files = <<>>

(***************************************************************************)
(* The component operations on tables that main() has not cleaned          *)
(***************************************************************************)
MaxStepRows == 2

SPACEDTRACE == <<" ", "t", "r", "a", "c", "e", " ">>

UPPERTRACE == <<"T", "R", "A", "C", "E">>

TRACEAMOUNT == <<"T", "r", "a", "c", "e", " ", "a", "m", "o", "u", "n", "t">>

\* a precipitation column as read_csv leaves it: markers, numerals, blanks
StepRowSet ==
  {[c \in {DATETIME, PRECIP, TEMP} |->
      CASE c = DATETIME -> Ts(2) [] c = PRECIP -> p [] OTHER -> q] :
     p \in {Str(TRACE), Str(SPACEDTRACE), Str(UPPERTRACE), Str(TRACEAMOUNT),
            Str(<<"2">>), Str(<<"4">>), NaN},
     q \in {Num(1, 1), Str(<<"x">>)}}

StepTables ==
  {[cols |-> <<DATETIME, PRECIP, TEMP>>, rows |-> rs] :
     rs \in SeqsUpTo(StepRowSet, MaxStepRows)}

\* requested column lists, each naming a column the table does not have
StepCols == {<<PRECIP, WIND>>, <<WIND, TEMP, PRECIP>>, <<WIND>>}

\* the operation called first and its arguments; text columns are charted
\* and resampled only after to_numeric
StepCalls ==
  {[pc |-> "numeric",
    args |-> [DefaultArgs EXCEPT !.value_cols = vc, !.trace_as_zero = tz,
                                 !.resample = rs, !.summary = TRUE,
                                 !.timeseries = TRUE, !.hist = TRUE]] :
     vc \in StepCols \ {<<WIND>>}, tz \in BOOLEAN, rs \in {NoArg, Arg(DAILY)}}
    \cup {[pc |-> p,
           args |-> [DefaultArgs EXCEPT !.value_cols = vc, !.trace_as_zero = TRUE,
                                        !.summary = TRUE, !.hist = TRUE]] :
            p \in {"trace", "summary"}, vc \in StepCols}

InitSteps ==
  /\ \E call \in StepCalls : pc = call.pc /\ args = call.args
  /\ raw = EmptyTable
  /\ df \in StepTables
  /\ loaded = df
  /\ dtcol = Arg(DATETIME)
  /\ pre = EmptyTable
  /\ resampled = NoResample
  /\ files = <<>>
  /\ result = <<>>
  /\ last = "none"

NextSteps ==
  \/ ToNumericStep
  \/ TraceStep
  \/ FilterStep
  \/ ResampleStep
  \/ SummaryStep
  \/ TimeseriesStep
  \/ HistStep

SpecSteps == InitSteps /\ [][NextSteps]_vars

\* column c is named in the list handed to to_numeric and handle_trace_values
Named(c) == \E j \in DOMAIN NumericCols : NumericCols[j] = c

\* the last step kept the table's columns and its number of rows
SameShape ==
  /\ df.cols = pre.cols
  /\ Len(df.rows) = Len(pre.rows)
  /\ \A i \in DOMAIN df.rows : DOMAIN df.rows[i] = DOMAIN pre.rows[i]

\* C14: handle_trace_values replaces a cell of a named, present column with
\* the replacement if and only if the cell's text, trimmed and compared
\* without regard to letter case, equals the token in full; every other
\* cell, and every column not named, is left unchanged
C14_ExactTokenCellsReplaced ==
  last = "trace" =>
    /\ SameShape
    /\ \A i \in DOMAIN df.rows : \A c \in DOMAIN df.rows[i] :
         df.rows[i][c] = IF Named(c) /\ IsTraceText(pre.rows[i][c])
                         THEN Num(0, 1)
                         ELSE pre.rows[i][c]

\* ' trace ' and 'TRACE' replaced, or 'Trace' replaced next to an untouched
\* 'Trace amount', in a call that also names an absent column
C14_Witness ==
  /\ last = "trace"
  /\ WantedCols = <<PRECIP, WIND>>
  /\ Len(pre.rows) = 2
  /\ \/ /\ pre.rows[1][PRECIP] = Str(SPACEDTRACE)
        /\ pre.rows[2][PRECIP] = Str(UPPERTRACE)
        /\ df.rows[1][PRECIP] = Num(0, 1)
        /\ df.rows[2][PRECIP] = Num(0, 1)
     \/ /\ pre.rows[1][PRECIP] = Str(TRACE)
        /\ pre.rows[2][PRECIP] = Str(TRACEAMOUNT)
        /\ df.rows[1][PRECIP] = Num(0, 1)
        /\ df.rows[2][PRECIP] = Str(TRACEAMOUNT)
  /\ df.rows[1][TEMP] = Str(<<"x">>)

\* the positions of the rows of table t whose column c parses as a number
NumberRows(t, c) ==
  {i \in DOMAIN t.rows : CellToNumeric(t.rows[i][c]).k = "num"}

\* column c is in table t and has at least one value that parses as a number
HasNumbers(t, c) ==
  (\E j \in DOMAIN t.cols : t.cols[j] = c) /\ NumberRows(t, c) # {}

\* C15: Summarizer.table emits exactly one row per requested column that is
\* present and has at least one value that parses as a number, in the order
\* of the requested list; absent columns and columns without a numeric value
\* give no row; a row's count is the number of non-missing numeric values of
\* its column and its min and max are the least and greatest of them
C15_OneRowPerNumericColumn ==
  last = "summary" =>
    LET Kept(c) == HasNumbers(Target, c)
        want == SelectSeq(WantedCols, Kept)
    IN  /\ Len(result) = Len(want)
        /\ \A k \in DOMAIN want :
             LET c == want[k]
                 values == {CellToNumeric(Target.rows[i][c]) : i \in NumberRows(Target, c)}
             IN  /\ result[k].column = c
                 /\ result[k].count = Cardinality(NumberRows(Target, c))
                 /\ result[k].min \in values
                 /\ result[k].max \in values
                 /\ \A v \in values : RLeq(result[k].min, v) /\ RLeq(v, result[k].max)

\* three names requested: one absent, one without a number, one with the
\* numbers 4 and 2; or a column with one number and one blank
C15_Witness ==
  /\ last = "summary"
  /\ WantedCols = <<WIND, TEMP, PRECIP>>
  /\ Len(df.rows) = 2
  /\ df.rows[1][TEMP] = Str(<<"x">>) /\ df.rows[2][TEMP] = Str(<<"x">>)
  /\ \/ /\ df.rows[1][PRECIP] = Str(<<"4">>) /\ df.rows[2][PRECIP] = Str(<<"2">>)
        /\ result = <<[column |-> PRECIP, count |-> 2,
                       min |-> Num(2, 1), max |-> Num(4, 1)]>>
     \/ /\ df.rows[1][PRECIP] = Str(<<"4">>) /\ df.rows[2][PRECIP] = NaN
        /\ result = <<[column |-> PRECIP, count |-> 1,
                       min |-> Num(4, 1), max |-> Num(4, 1)]>>

\* a requested name is absent from the table
SomeAbsent == \E j \in DOMAIN WantedCols : Absent(WantedCols[j])

\* a requested name is present in the table
SomePresent == \E j \in DOMAIN WantedCols : ~Absent(WantedCols[j])

\* C13 as stated, for resample: a call with a frequency that names absent
\* columns next to present ones still processes the present ones, that
\* is, returns their aggregated table
C13_ResampleProcessesPresentNames ==
  last = "resample" /\ ~FreqFalsy /\ SomeAbsent /\ SomePresent =>
    /\ resampled.kind = "table"
    /\ \A j \in DOMAIN WantedCols :
         ~Absent(WantedCols[j]) =>
           \E k \in DOMAIN resampled.table.cols :
             resampled.table.cols[k] = WantedCols[j]

\* C13: with a requested column list that includes absent names, to_numeric,
\* handle_trace_values, filter_date_range, Summarizer.table,
\* Visualizer.timeseries and Visualizer.histograms complete without raising,
\* produce nothing for the absent names and process the present ones;
\* resample completes without raising too, but returns none for the whole
\* request, the present names included
C13_AbsentNamesSkipped ==
  SomeAbsent =>
    /\ pc \notin {"crash", "exit"}
    /\ last = "numeric" =>
         /\ SameShape
         /\ \A i \in DOMAIN df.rows : \A c \in DOMAIN df.rows[i] :
              IF Named(c)
              THEN /\ df.rows[i][c].k \in {"num", "nan"}
                   /\ pre.rows[i][c] = Str(<<"2">>) => df.rows[i][c] = Num(2, 1)
              ELSE df.rows[i][c] = pre.rows[i][c]
    /\ last = "trace" =>
         /\ SameShape
         /\ \A i \in DOMAIN df.rows : \A c \in DOMAIN df.rows[i] :
              IF Named(c) /\ pre.rows[i][c] \in {Str(TRACE), Str(UPPERTRACE)}
              THEN df.rows[i][c] = Num(0, 1)
              ELSE ~Named(c) => df.rows[i][c] = pre.rows[i][c]
    /\ last = "filter" => SameShape
    /\ last = "resample" => df = pre /\ resampled.kind = "none" /\ pc = "summary"
    /\ last = "summary" =>
         {result[k].column : k \in DOMAIN result}
           = {c \in Range(WantedCols) : HasNumbers(Target, c)}
    /\ last = "timeseries" /\ args.timeseries =>
         LET InTable(c) == ~Absent(c)
             drawn == SelectSeq(WantedCols, InTable)
         IN  result = [k \in DOMAIN drawn |-> Slugify(drawn[k]) \o Suffix \o PNG]
    /\ last = "hist" =>
         LET Kept(c) == HasNumbers(Target, c)
             drawn == SelectSeq(WantedCols, Kept)
         IN  [k \in DOMAIN result |-> result[k].path]
               = [k \in DOMAIN drawn |-> Slugify(drawn[k]) \o HIST \o Suffix \o PNG]

\* the charts of a request naming an absent column between present ones:
\* one per present name, after resample gave none for the same request
C13_Witness ==
  /\ last = "timeseries"
  /\ WantedCols = <<WIND, TEMP, PRECIP>>
  /\ Absent(WIND)
  /\ ~FreqFalsy
  /\ resampled.kind = "none"
  /\ df.rows # <<>>
  /\ Len(result) = 2
  /\ files = <<SUMMARY \o CSV>> \o result

\* the rows of table t ascend in column c, none of them missing there
Ordered(t, c) ==
  /\ \A i \in DOMAIN t.rows : t.rows[i][c].k \in {"ts", "num"}
  /\ \A i \in 1..(Len(t.rows) - 1) : t.rows[i][c].n <= t.rows[i + 1][c].n

\* C17: in every run that gets past loading with a resolved datetime column,
\* the table is ordered ascending by that column after each step of main(),
\* for any choice of flags, and so is the table handed to Summarizer,
\* Visualizer and export: the resampled table, whose first column is its
\* time column, or else the filtered table
C17_TimeOrdered ==
  last # "none" /\ pc # "crash" /\ dtcol.some /\ HasCol(loaded, dtcol.s) =>
    /\ HasCol(df, dtcol.s)
    /\ Ordered(df, dtcol.s)
    /\ resampled.kind = "table" =>
         /\ resampled.table.cols[1] = dtcol.s
         /\ Ordered(resampled.table, resampled.table.cols[1])
         /\ Target = resampled.table
    /\ resampled.kind # "table" => Target = df

\* a file whose two dated rows come latest first, run to the end with a
\* resampled table of two days
C17_Witness ==
  /\ pc = "done"
  /\ Len(raw.rows) = 2
  /\ raw.rows[1][DATETIME] = <<"2", "a">>
  /\ raw.rows[2][DATETIME] = <<"1", "a">>
  /\ Len(df.rows) = 2
  /\ df.rows[1][DATETIME] = Ts(2)
  /\ df.rows[2][DATETIME] = Ts(4)
  /\ resampled.kind = "table"
  /\ Len(resampled.table.rows) = 2
  /\ args.export_clean

====
